---- MODULE Spec2Model ----
(***************************************************************************)
(* chordpro2html: parse (text -> Song), transpose (Song -> Song) and       *)
(* render (Song -> HTML), modelled over a heap of objects so that          *)
(* reference identity, aliasing and mutation are observable.               *)
(*                                                                         *)
(* A JavaScript string is a sequence of one-character strings.  An object  *)
(* reference is an index into the sequence heap; NULL is no reference.     *)
(***************************************************************************)
EXTENDS Integers, Sequences, FiniteSets, TLC

VARIABLES
    text,            \* the input handed to parse
    pc,              \* position in the pipeline
    lines,           \* parse: the physical lines of the trimmed input
    li,              \* parse: index of the next line of the for-loop
    nodes,           \* parse: the local array nodes (references)
    currentSection,  \* parse: the local currentSection (reference or NULL)
    heap,            \* every object allocated so far
    song,            \* the Song returned by parse (reference)
    cur,             \* the Song returned by the latest call of the pipeline
    applied,         \* the semitone counts of the transpose calls made so far
    topts,           \* the options of the transpose calls
    ropts,           \* the options of the render call
    html             \* the string returned by render

vars == <<text, pc, lines, li, nodes, currentSection, heap, song, cur,
          applied, topts, ropts, html>>

NULL == 0

(***************************************************************************)
(* Strings                                                                 *)
(***************************************************************************)

\* The characters of a string literal, in order.
Chars(s) == [i \in 1..Len(s) |-> SubSeq(s, i, i)]

\* The characters String.prototype.trim* remove (those the inputs can hold).
WhiteSpace == {" ", "\t", "\n", "\r"}

RECURSIVE TrimEnd(_)
TrimEnd(s) ==
    IF s = <<>> \/ s[Len(s)] \notin WhiteSpace THEN s
    ELSE TrimEnd(SubSeq(s, 1, Len(s) - 1))

RECURSIVE TrimStart(_)
TrimStart(s) ==
    IF s = <<>> \/ s[1] \notin WhiteSpace THEN s
    ELSE TrimStart(SubSeq(s, 2, Len(s)))

Trim(s) == TrimStart(TrimEnd(s))

\* String.prototype.indexOf for a one-character needle: 0-based, -1 if absent.
IndexOf(s, c) ==
    IF \E i \in 1..Len(s) : s[i] = c
    THEN (CHOOSE i \in 1..Len(s) : s[i] = c /\ \A j \in 1..(i - 1) : s[j] # c) - 1
    ELSE -1

\* String.prototype.slice(from, to) with 0-based from and exclusive to.
Slice(s, from, to) == SubSeq(s, from + 1, to)

SliceFrom(s, from) == SubSeq(s, from + 1, Len(s))

UpperChars == Chars("ABCDEFGHIJKLMNOPQRSTUVWXYZ")
LowerChars == Chars("abcdefghijklmnopqrstuvwxyz")

ToLowerChar(c) ==
    IF \E i \in 1..Len(UpperChars) : UpperChars[i] = c
    THEN LowerChars[CHOOSE i \in 1..Len(UpperChars) : UpperChars[i] = c]
    ELSE c

ToUpperChar(c) ==
    IF \E i \in 1..Len(LowerChars) : LowerChars[i] = c
    THEN UpperChars[CHOOSE i \in 1..Len(LowerChars) : LowerChars[i] = c]
    ELSE c

ToLowerCase(s) == [i \in 1..Len(s) |-> ToLowerChar(s[i])]

\* A value is a string when every element is one character; the values that
\* are not strings (objects that leak out of a property lookup) are sequences
\* holding one longer descriptive element.
IsString(v) == \A i \in 1..Len(v) : Len(v[i]) = 1

RECURSIVE Concat(_)
Concat(ss) == IF ss = <<>> THEN <<>> ELSE Head(ss) \o Concat(Tail(ss))

\* The string literal with the characters cs.
RECURSIVE Literal(_)
Literal(cs) == IF cs = <<>> THEN "" ELSE Head(cs) \o Literal(Tail(cs))

\* Array.prototype.join
RECURSIVE Join(_, _)
Join(ss, sep) ==
    IF ss = <<>> THEN <<>>
    ELSE IF Len(ss) = 1 THEN ss[1]
    ELSE ss[1] \o sep \o Join(Tail(ss), sep)

(***************************************************************************)
(* Heap                                                                    *)
(***************************************************************************)

\* The reference a new object gets.
NewRef(h) == Len(h) + 1

Alloc(h, obj) == Append(h, obj)

LineNode(chords) == [type |-> "line", chords |-> chords]
DirectiveNode(name, value) == [type |-> "directive", name |-> name, value |-> value]
\* label is <<>> when the property is absent and <<string>> when present.
SectionNode(name, label, ls) ==
    [type |-> "section", name |-> name, label |-> label, lines |-> ls]
EmptyNode == [type |-> "empty"]
SongObject(ns) == [type |-> "song", nodes |-> ns]

(***************************************************************************)
(* Parser                                                                  *)
(***************************************************************************)

AliasPairs ==
    { <<"t", "title">>, <<"st", "subtitle">>, <<"c", "comment">>,
      <<"ci", "comment_italic">>, <<"cb", "comment_box">>,
      <<"soc", "start_of_chorus">>, <<"eoc", "end_of_chorus">>,
      <<"sov", "start_of_verse">>, <<"eov", "end_of_verse">>,
      <<"sot", "start_of_tab">>, <<"eot", "end_of_tab">>,
      <<"sob", "start_of_bridge">>, <<"eob", "end_of_bridge">>,
      <<"sog", "start_of_grid">>, <<"eog", "end_of_grid">> }

SectionNames == {"chorus", "verse", "tab", "bridge", "grid"}

\* The own properties of an object literal, as a function from key to value.
Table(pairs) ==
    [k \in {Chars(p[1]) : p \in pairs} |->
        Chars((CHOOSE p \in pairs : Chars(p[1]) = k)[2])]

DIRECTIVE_ALIASES == Table(AliasPairs)

SECTION_START == Table({<<"start_of_" \o n, n>> : n \in SectionNames})

SECTION_END == Table({<<"end_of_" \o n, n>> : n \in SectionNames})

\* The three tables are object literals, so a lookup also finds what they
\* inherit from Object.prototype; the value found there is not a string.
ObjectPrototypeKeys ==
    {Chars(k) : k \in {"constructor", "__proto__", "hasOwnProperty",
                       "isPrototypeOf", "propertyIsEnumerable",
                       "toLocaleString", "toString", "valueOf"}}

InheritedValue(key) == <<"[inherited Object.prototype." \o Literal(key) \o "]">>

\* obj[key] ?? dflt
LookupOr(obj, key, dflt) ==
    IF key \in DOMAIN obj THEN obj[key]
    ELSE IF key \in ObjectPrototypeKeys THEN InheritedValue(key)
    ELSE dflt

\* key in obj  (a key that is not a string is converted to one that names
\* no property)
HasProperty(obj, key) ==
    IsString(key) /\ (key \in DOMAIN obj \/ key \in ObjectPrototypeKeys)

\* One exec of /\[([^\]]*)\]/g from lastIndex (0-based): the first "[" at or
\* after lastIndex that some "]" follows.  <<>> when there is no match, else
\* <<index of "[", index of "]">>, both 0-based.
BracketMatch(line, lastIndex) ==
    LET opens == {i \in (lastIndex + 1)..Len(line) :
                     line[i] = "[" /\ \E j \in (i + 1)..Len(line) : line[j] = "]"}
    IN  IF opens = {} THEN <<>>
        ELSE LET i == CHOOSE i \in opens : \A k \in opens : i <= k
                 j == CHOOSE j \in (i + 1)..Len(line) :
                         line[j] = "]" /\ \A k \in (i + 1)..(j - 1) : line[k] # "]"
             IN  <<i - 1, j - 1>>

Pair(chord, lyric) == [chord |-> chord, lyric |-> lyric]

\* chords[chords.length - 1].lyric += t
AppendLyric(chords, t) ==
    [chords EXCEPT ![Len(chords)].lyric = @ \o t]

\* The while loop of parseLyricLine and the code after it.
RECURSIVE LyricLoop(_, _, _)
LyricLoop(line, chords, lastIndex) ==
    LET m == BracketMatch(line, lastIndex) IN
    IF m = <<>>
    THEN LET trailing == SliceFrom(line, lastIndex)
         IN  IF Len(chords) = 0 THEN <<Pair(<<>>, trailing)>>
             ELSE AppendLyric(chords, trailing)
    ELSE LET textBefore == Slice(line, lastIndex, m[1])
             withText ==
                 IF m[1] > lastIndex
                 THEN IF Len(chords) = 0 THEN <<Pair(<<>>, textBefore)>>
                      ELSE AppendLyric(chords, textBefore)
                 ELSE chords
         IN  LyricLoop(line,
                       Append(withText, Pair(Slice(line, m[1] + 1, m[2]), <<>>)),
                       m[2] + 1)

\* parseLyricLine without the text before the first chord.
parseLyricLineNoLead(line) ==
    LET m == BracketMatch(line, 0) IN
    LineNode(LyricLoop(line, <<>>, IF m = <<>> THEN 0 ELSE m[1]))

parseLyricLine(line) == LineNode(LyricLoop(line, <<>>, 0))

parseDirective(content) ==
    LET colonIndex == IndexOf(content, ":")
        rawName == IF colonIndex = -1 THEN Trim(content)
                   ELSE Trim(Slice(content, 0, colonIndex))
        value == IF colonIndex = -1 THEN <<>>
                 ELSE Trim(SliceFrom(content, colonIndex + 1))
        lower == ToLowerCase(rawName)
    IN  [name |-> LookupOr(DIRECTIVE_ALIASES, lower, lower), value |-> value]

\* line.trim().match(/^\{([^}]+)\}$/): <<>> when there is no match, else
\* <<the captured content>>.
DirectiveMatch(t) ==
    IF /\ Len(t) >= 3
       /\ t[1] = "{"
       /\ t[Len(t)] = "}"
       /\ \A i \in 2..(Len(t) - 1) : t[i] # "}"
    THEN <<SubSeq(t, 2, Len(t) - 1)>>
    ELSE <<>>

\* trimmed.split(/\r?\n/)
RECURSIVE SplitLines(_)
SplitLines(s) ==
    LET nl == IndexOf(s, "\n") IN
    IF nl = -1 THEN <<s>>
    ELSE LET before == Slice(s, 0, nl)
             piece == IF Len(before) > 0 /\ before[Len(before)] = "\r"
                      THEN SubSeq(before, 1, Len(before) - 1)
                      ELSE before
         IN  <<piece>> \o SplitLines(SliceFrom(s, nl + 1))

\* The locals of parse that the loop changes: ps.heap, ps.nodes,
\* ps.currentSection.
ParseState(h, ns, cs) == [heap |-> h, nodes |-> ns, currentSection |-> cs]

\* if (currentSection) currentSection.lines.push(node) else nodes.push(node)
PushNode(ps, obj) ==
    LET ref == NewRef(ps.heap)
        h == Alloc(ps.heap, obj)
    IN  IF ps.currentSection # NULL
        THEN ParseState([h EXCEPT ![ps.currentSection].lines = Append(@, ref)],
                        ps.nodes, ps.currentSection)
        ELSE ParseState(h, Append(ps.nodes, ref), NULL)

\* ParseLine that puts a section started inside an open section into the
\* lines of the open one.
ParseLineNests(ps, rawLine) ==
    LET line == TrimEnd(rawLine)
        lead == TrimStart(line)
        dm == DirectiveMatch(Trim(line))
    IN  IF Len(lead) > 0 /\ lead[1] = "#" THEN ps
        ELSE IF Trim(line) = <<>> THEN PushNode(ps, EmptyNode)
        ELSE IF dm # <<>>
        THEN LET d == parseDirective(dm[1]) IN
             IF HasProperty(SECTION_START, d.name)
             THEN LET section == SectionNode(SECTION_START[d.name],
                                             IF d.value # <<>> THEN <<d.value>> ELSE <<>>,
                                             <<>>)
                  IN  IF ps.currentSection # NULL
                      THEN PushNode(ps, section)
                      ELSE ParseState(Alloc(ps.heap, section), ps.nodes, NewRef(ps.heap))
             ELSE IF HasProperty(SECTION_END, d.name)
             THEN IF ps.currentSection # NULL
                  THEN ParseState(ps.heap, Append(ps.nodes, ps.currentSection), NULL)
                  ELSE ps
             ELSE PushNode(ps, DirectiveNode(d.name, d.value))
        ELSE PushNode(ps, parseLyricLine(line))

\* One iteration of the for-loop of parse.
ParseLine(ps, rawLine) ==
    LET line == TrimEnd(rawLine)
        lead == TrimStart(line)
        dm == DirectiveMatch(Trim(line))
    IN  IF Len(lead) > 0 /\ lead[1] = "#" THEN ps
        ELSE IF Trim(line) = <<>> THEN PushNode(ps, EmptyNode)
        ELSE IF dm # <<>>
        THEN LET d == parseDirective(dm[1]) IN
             IF HasProperty(SECTION_START, d.name)
             THEN ParseState(
                      Alloc(ps.heap,
                            SectionNode(SECTION_START[d.name],
                                        IF d.value # <<>> THEN <<d.value>> ELSE <<>>,
                                        <<>>)),
                      ps.nodes, NewRef(ps.heap))
             ELSE IF HasProperty(SECTION_END, d.name)
             THEN IF ps.currentSection # NULL
                  THEN ParseState(ps.heap, Append(ps.nodes, ps.currentSection), NULL)
                  ELSE ps
             ELSE PushNode(ps, DirectiveNode(d.name, d.value))
        ELSE PushNode(ps, parseLyricLine(line))

\* ParseClose without the push of the unclosed section.
ParseCloseDropsSection(ps) == ParseState(ps.heap, ps.nodes, NULL)

\* The code of parse after the loop: close any unclosed section.
ParseClose(ps) ==
    IF ps.currentSection # NULL
    THEN ParseState(ps.heap, Append(ps.nodes, ps.currentSection), NULL)
    ELSE ps

\* The for-loop of parse over the lines ls.
RECURSIVE ParseLoop(_, _)
ParseLoop(ps, ls) ==
    IF ls = <<>> THEN ps ELSE ParseLoop(ParseLine(ps, Head(ls)), Tail(ls))

\* parse(t) on the heap h, as one call.
parse(h, t) ==
    LET trimmed == TrimEnd(t) IN
    IF trimmed = <<>> THEN [heap |-> Alloc(h, SongObject(<<>>)), ref |-> NewRef(h)]
    ELSE LET ps == ParseClose(ParseLoop(ParseState(h, <<>>, NULL), SplitLines(trimmed)))
         IN  [heap |-> Alloc(ps.heap, SongObject(ps.nodes)), ref |-> NewRef(ps.heap)]

(***************************************************************************)
(* Transposer                                                              *)
(***************************************************************************)

STANDARD_NOTE_MAP ==
    [r \in {"C", "D", "E", "F", "G", "A", "B"} |->
        CASE r = "C" -> 0 [] r = "D" -> 2 [] r = "E" -> 4 [] r = "F" -> 5
          [] r = "G" -> 7 [] r = "A" -> 9 [] r = "B" -> 11]

GERMAN_NOTE_MAP ==
    [r \in {"C", "D", "E", "F", "G", "A", "B", "H"} |->
        CASE r = "C" -> 0 [] r = "D" -> 2 [] r = "E" -> 4 [] r = "F" -> 5
          [] r = "G" -> 7 [] r = "A" -> 9 [] r = "B" -> 10 [] r = "H" -> 11]

NoteNames(ns) == [i \in 1..Len(ns) |-> Chars(ns[i])]

\* SEMITONE_TO_NOTE[notation][accPref][k] is SemitoneToNote(notation, accPref)[k + 1].
SEMITONE_TO_NOTE ==
    [notation \in {"standard", "german"} |->
        [accPref \in {"sharp", "flat"} |->
            NoteNames(
                CASE notation = "standard" /\ accPref = "sharp" ->
                       <<"C", "C#", "D", "D#", "E", "F", "F#", "G", "G#", "A", "A#", "B">>
                  [] notation = "standard" /\ accPref = "flat" ->
                       <<"C", "Db", "D", "Eb", "E", "F", "Gb", "G", "Ab", "A", "Bb", "B">>
                  [] notation = "german" /\ accPref = "sharp" ->
                       <<"C", "C#", "D", "D#", "E", "F", "F#", "G", "G#", "A", "A#", "H">>
                  [] notation = "german" /\ accPref = "flat" ->
                       <<"C", "Db", "D", "Eb", "E", "F", "Gb", "G", "Ab", "A", "B", "H">>)]]

RootLetters == {"A", "B", "C", "D", "E", "F", "G", "H",
                "a", "b", "c", "d", "e", "f", "g", "h"}

\* The characters "." of a regular expression does not match.
LineTerminators == {"\n", "\r"}

\* chord.match(ROOT_REGEX): <<>> when there is no match, else
\* <<rootRaw, accidental, quality>> with accidental "" when the group is unset.
RootMatch(chord) ==
    IF chord = <<>> \/ chord[1] \notin RootLetters
    THEN <<>>
    ELSE LET rest == Tail(chord)
             acc == IF Len(rest) >= 2 /\ rest[1] = "#" /\ rest[2] = "#" THEN <<"#", "#">>
                    ELSE IF Len(rest) >= 1 /\ rest[1] = "#" THEN <<"#">>
                    ELSE IF Len(rest) >= 2 /\ rest[1] = "b" /\ rest[2] = "b" THEN <<"b", "b">>
                    ELSE IF Len(rest) >= 1 /\ rest[1] = "b" THEN <<"b">>
                    ELSE <<>>
             quality == SubSeq(rest, Len(acc) + 1, Len(rest))
         IN  IF \E i \in 1..Len(quality) : quality[i] \in LineTerminators
             THEN <<>>
             ELSE <<<<chord[1]>>, acc, quality>>

\* accidentalOffset that gives 0 for every accidental.
accidentalOffsetZero(acc) == 0

accidentalOffset(acc) ==
    IF acc = <<"#">> THEN 1
    ELSE IF acc = <<"#", "#">> THEN 2
    ELSE IF acc = <<"b">> THEN -1
    ELSE IF acc = <<"b", "b">> THEN -2
    ELSE 0

\* The remainder operator of JavaScript: the sign of the dividend.
JsRem(a, b) == IF a >= 0 THEN a % b ELSE -((-a) % b)

\* transposeChord with the accidental of the root left out of the pitch.
RECURSIVE transposeChordNoAccidental(_, _, _, _)
transposeChordNoAccidental(chord, semitones, noteMap, noteTable) ==
    LET slashIndex == IndexOf(chord, "/") IN
    IF slashIndex # -1
    THEN transposeChordNoAccidental(Slice(chord, 0, slashIndex), semitones, noteMap,
                                    noteTable)
         \o <<"/">> \o
         transposeChordNoAccidental(SliceFrom(chord, slashIndex + 1), semitones,
                                    noteMap, noteTable)
    ELSE LET match == RootMatch(chord) IN
         IF match = <<>> THEN chord
         ELSE LET root == ToUpperChar(match[1][1]) IN
              IF root \notin DOMAIN noteMap THEN chord
              ELSE noteTable[JsRem(JsRem(noteMap[root] + semitones, 12) + 12, 12) + 1]
                   \o match[3]

\* transposeChord that leaves the part after the "/" as it is.
transposeChordMainOnly(chord, semitones, noteMap, noteTable) ==
    LET slashIndex == IndexOf(chord, "/")
        main == IF slashIndex # -1 THEN Slice(chord, 0, slashIndex) ELSE chord
        bass == IF slashIndex # -1 THEN SliceFrom(chord, slashIndex) ELSE <<>>
        match == RootMatch(main)
    IN  IF match = <<>> \/ ToUpperChar(match[1][1]) \notin DOMAIN noteMap
        THEN chord
        ELSE noteTable[JsRem(JsRem(noteMap[ToUpperChar(match[1][1])]
                                   + accidentalOffset(match[2]) + semitones, 12)
                             + 12, 12) + 1]
             \o match[3] \o bass

RECURSIVE transposeChord(_, _, _, _)
transposeChord(chord, semitones, noteMap, noteTable) ==
    LET slashIndex == IndexOf(chord, "/") IN
    IF slashIndex # -1
    THEN transposeChord(Slice(chord, 0, slashIndex), semitones, noteMap, noteTable)
         \o <<"/">> \o
         transposeChord(SliceFrom(chord, slashIndex + 1), semitones, noteMap, noteTable)
    ELSE LET match == RootMatch(chord) IN
         IF match = <<>> THEN chord
         ELSE LET root == ToUpperChar(match[1][1]) IN
              IF root \notin DOMAIN noteMap THEN chord
              ELSE LET baseSemitone == noteMap[root]
                       offset == accidentalOffset(match[2])
                       newSemitone ==
                           JsRem(JsRem(baseSemitone + offset + semitones, 12) + 12, 12)
                   IN  noteTable[newSemitone + 1] \o match[3]

\* iterateChordsInNode that yields nothing for a section.
iterateChordsInNodeFlat(h, ref) ==
    LET node == h[ref] IN
    IF node.type = "line"
    THEN SelectSeq([i \in 1..Len(node.chords) |-> node.chords[i].chord],
                   LAMBDA c : c # <<>>)
    ELSE <<>>

\* The chord strings iterateChordsInNode yields for the node at ref.
RECURSIVE iterateChordsInNode(_, _)
iterateChordsInNode(h, ref) ==
    LET node == h[ref] IN
    IF node.type = "line"
    THEN SelectSeq([i \in 1..Len(node.chords) |-> node.chords[i].chord],
                   LAMBDA c : c # <<>>)
    ELSE IF node.type = "section"
    THEN Concat([i \in 1..Len(node.lines) |-> iterateChordsInNode(h, node.lines[i])])
    ELSE <<>>

iterateChords(h, s) ==
    Concat([i \in 1..Len(h[s].nodes) |-> iterateChordsInNode(h, h[s].nodes[i])])

detectNotation(h, s) ==
    LET chords == iterateChords(h, s) IN
    IF \E i \in 1..Len(chords) :
          /\ RootMatch(chords[i]) # <<>>
          /\ ToUpperChar(RootMatch(chords[i])[1][1]) = "H"
    THEN "german"
    ELSE "standard"

\* detectAccidentalPreference that returns "sharp" on every tie.
detectAccidentalPreferenceTieSharp(h, s, notation) ==
    LET chords == iterateChords(h, s)
        with(c) == {i \in 1..Len(chords) :
                       /\ RootMatch(chords[i]) # <<>>
                       /\ \E k \in 1..Len(RootMatch(chords[i])[2]) :
                              RootMatch(chords[i])[2][k] = c}
    IN  IF Cardinality(with("b")) > Cardinality(with("#")) THEN "flat" ELSE "sharp"

detectAccidentalPreference(h, s, notation) ==
    LET chords == iterateChords(h, s)
        with(c) == {i \in 1..Len(chords) :
                       /\ RootMatch(chords[i]) # <<>>
                       /\ RootMatch(chords[i])[2] # <<>>
                       /\ \E k \in 1..Len(RootMatch(chords[i])[2]) :
                              RootMatch(chords[i])[2][k] = c}
        sharps == Cardinality(with("#"))
        flats == Cardinality(with("b"))
    IN  IF sharps = flats
        THEN IF notation = "german" THEN "flat" ELSE "sharp"
        ELSE IF flats > sharps THEN "flat" ELSE "sharp"

\* What a call that allocates returns: the heap after it and the reference.
Ret(h, ref) == [heap |-> h, ref |-> ref]

\* transposeLine writing the transposed chords into the line it was given.
transposeLineInPlace(h, ref, semitones, noteMap, noteTable) ==
    LET line == h[ref]
        chords == [i \in 1..Len(line.chords) |->
                      Pair(IF line.chords[i].chord # <<>>
                           THEN transposeChord(line.chords[i].chord, semitones,
                                               noteMap, noteTable)
                           ELSE <<>>,
                           line.chords[i].lyric)]
    IN  Ret([h EXCEPT ![ref].chords = chords], ref)

transposeLine(h, ref, semitones, noteMap, noteTable) ==
    LET line == h[ref]
        chords == [i \in 1..Len(line.chords) |->
                      Pair(IF line.chords[i].chord # <<>>
                           THEN transposeChord(line.chords[i].chord, semitones,
                                               noteMap, noteTable)
                           ELSE <<>>,
                           line.chords[i].lyric)]
    IN  Ret(Alloc(h, LineNode(chords)), NewRef(h))

\* case "directive" of transposeNode without the test for key.
transposeDirectiveKeeps(h, ref, semitones, noteMap, noteTable) == Ret(h, ref)

\* case "directive" of transposeNode
transposeDirective(h, ref, semitones, noteMap, noteTable) ==
    LET node == h[ref] IN
    IF node.name = Chars("key") /\ node.value # <<>>
    THEN Ret(Alloc(h, [node EXCEPT !.value =
                          transposeChord(node.value, semitones, noteMap, noteTable)]),
             NewRef(h))
    ELSE Ret(h, ref)

RECURSIVE transposeNode(_, _, _, _, _)
RECURSIVE MapTransposeNode(_, _, _, _, _)

transposeNode(h, ref, semitones, noteMap, noteTable) ==
    LET node == h[ref] IN
    CASE node.type = "line" -> transposeLine(h, ref, semitones, noteMap, noteTable)
      [] node.type = "directive" ->
             transposeDirective(h, ref, semitones, noteMap, noteTable)
      [] node.type = "section" ->
             LET kids == MapTransposeNode(h, node.lines, semitones, noteMap, noteTable)
                 label == IF node.label # <<>> /\ node.label[1] # <<>>
                          THEN node.label ELSE <<>>
             IN  Ret(Alloc(kids.heap, SectionNode(node.name, label, kids.ref)),
                     NewRef(kids.heap))
      [] OTHER -> Ret(h, ref)

\* refs.map((node) => transposeNode(node, ...)): ret.ref is the new array.
MapTransposeNode(h, refs, semitones, noteMap, noteTable) ==
    IF refs = <<>> THEN Ret(h, <<>>)
    ELSE LET first == transposeNode(h, Head(refs), semitones, noteMap, noteTable)
             others == MapTransposeNode(first.heap, Tail(refs), semitones,
                                        noteMap, noteTable)
         IN  Ret(others.heap, <<first.ref>> \o others.ref)

\* options.notation and options.accidentalPreference are "none" when not
\* supplied.
NotationOf(h, s, options) ==
    IF options.notation # "none" THEN options.notation ELSE detectNotation(h, s)

\* AccPrefOf with options.accidentalPreference never read.
AccPrefDetected(h, s, options) ==
    detectAccidentalPreference(h, s, NotationOf(h, s, options))

AccPrefOf(h, s, options) ==
    IF options.accidentalPreference # "none" THEN options.accidentalPreference
    ELSE detectAccidentalPreference(h, s, NotationOf(h, s, options))

\* NoteMapOf that gives the German note map for both notations.
NoteMapAlwaysGerman(notation) == GERMAN_NOTE_MAP

NoteMapOf(notation) ==
    IF notation = "german" THEN GERMAN_NOTE_MAP ELSE STANDARD_NOTE_MAP

\* transpose without the early return for semitones === 0.
transposeAlwaysCopies(h, s, semitones, options) ==
    LET notation == NotationOf(h, s, options)
        accPref == AccPrefOf(h, s, options)
        mapped == MapTransposeNode(h, h[s].nodes, semitones, NoteMapOf(notation),
                                   SEMITONE_TO_NOTE[notation][accPref])
    IN  Ret(Alloc(mapped.heap, SongObject(mapped.ref)), NewRef(mapped.heap))

transpose(h, s, semitones, options) ==
    IF semitones = 0 THEN Ret(h, s)
    ELSE LET notation == NotationOf(h, s, options)
             accPref == AccPrefOf(h, s, options)
             mapped == MapTransposeNode(h, h[s].nodes, semitones, NoteMapOf(notation),
                                        SEMITONE_TO_NOTE[notation][accPref])
         IN  Ret(Alloc(mapped.heap, SongObject(mapped.ref)), NewRef(mapped.heap))

(***************************************************************************)
(* Renderer                                                                *)
(***************************************************************************)

\* text.replace(/c/g, rep) for a one-character pattern.
ReplaceAll(s, c, rep) ==
    Concat([i \in 1..Len(s) |-> IF s[i] = c THEN rep ELSE <<s[i]>>])

\* escapeHtml without the replacement of the double quote.
escapeHtmlKeepsQuote(t) ==
    ReplaceAll(
        ReplaceAll(
            ReplaceAll(t, "&", Chars("&amp;")),
            "<", Chars("&lt;")),
        ">", Chars("&gt;"))

escapeHtml(t) ==
    ReplaceAll(
        ReplaceAll(
            ReplaceAll(
                ReplaceAll(t, "&", Chars("&amp;")),
                "<", Chars("&lt;")),
            ">", Chars("&gt;")),
        "\"", Chars("&quot;"))

\* The character U+00A0 (no input of the model holds the stand-in).
NBSP == "~"

\* renderChord without the non-breaking space for an empty lyric.
renderChordBareLyric(pair) ==
    Chars("<span class=\"chord-lyric\"><span class=\"chord\">")
    \o escapeHtml(pair.chord)
    \o Chars("</span><span class=\"lyric\">") \o escapeHtml(pair.lyric)
    \o Chars("</span></span>")

renderChord(pair) ==
    LET chord == IF pair.chord # <<>>
                 THEN Chars("<span class=\"chord\">") \o escapeHtml(pair.chord)
                      \o Chars("</span>")
                 ELSE Chars("<span class=\"chord\"></span>")
        lyric == Chars("<span class=\"lyric\">")
                 \o (IF escapeHtml(pair.lyric) # <<>> THEN escapeHtml(pair.lyric)
                     ELSE <<NBSP>>)
                 \o Chars("</span>")
    IN  Chars("<span class=\"chord-lyric\">") \o chord \o lyric \o Chars("</span>")

renderLine(node) ==
    LET hasChords == \E i \in 1..Len(node.chords) : node.chords[i].chord # <<>> IN
    IF ~hasChords
    THEN Chars("<div class=\"line\">")
         \o escapeHtml(Concat([i \in 1..Len(node.chords) |-> node.chords[i].lyric]))
         \o Chars("</div>")
    ELSE Chars("<div class=\"line\">")
         \o Concat([i \in 1..Len(node.chords) |-> renderChord(node.chords[i])])
         \o Chars("</div>")

renderDirective(node) ==
    LET value == escapeHtml(node.value)
        name == node.name
    IN  CASE name = Chars("title") ->
               Chars("<h1 class=\"song-title\">") \o value \o Chars("</h1>")
          [] name = Chars("subtitle") ->
               Chars("<h2 class=\"song-subtitle\">") \o value \o Chars("</h2>")
          [] name = Chars("comment") ->
               Chars("<p class=\"comment\">") \o value \o Chars("</p>")
          [] name = Chars("comment_italic") ->
               Chars("<p class=\"comment comment-italic\"><i>") \o value
               \o Chars("</i></p>")
          [] name = Chars("comment_box") ->
               Chars("<p class=\"comment comment-box\">") \o value \o Chars("</p>")
          [] OTHER ->
               Chars("<div class=\"meta meta-") \o escapeHtml(name) \o Chars("\">")
               \o value \o Chars("</div>")

RECURSIVE renderNode(_, _)

renderSection(h, node) ==
    LET label == IF node.label # <<>> /\ node.label[1] # <<>>
                 THEN Chars("<div class=\"section-label\">")
                      \o escapeHtml(node.label[1]) \o Chars("</div>\n")
                 ELSE <<>>
        inner == Join([i \in 1..Len(node.lines) |-> renderNode(h, node.lines[i])],
                      <<"\n">>)
    IN  Chars("<div class=\"section section-") \o escapeHtml(node.name)
        \o Chars("\">\n") \o label \o inner \o Chars("\n</div>")

renderNode(h, ref) ==
    LET node == h[ref] IN
    CASE node.type = "line" -> renderLine(node)
      [] node.type = "directive" -> renderDirective(node)
      [] node.type = "section" -> renderSection(h, node)
      [] node.type = "empty" -> Chars("<div class=\"empty-line\"></div>")

DEFAULT_STYLES ==
    Join(<<
      Chars(".song-title { margin: 0 0 0.25em; }"),
      Chars(".song-subtitle { margin: 0 0 0.5em; font-weight: normal; }"),
      Chars(".comment { font-style: italic; margin: 0.5em 0; }"),
      Chars(".comment-box { border: 1px solid #000; padding: 0.25em 0.5em; font-style: normal; }"),
      Chars(".section { margin: 1em 0; }"),
      Chars(".section-chorus { border-left: 3px solid #000; padding-left: 0.75em; }"),
      Chars(".section-tab { font-family: monospace; white-space: pre; font-weight: bold; line-height: 0.5; }"),
      Chars(".section-tab .line { display: block; }"),
      Chars(".section-label { font-weight: bold; margin-bottom: 0.25em; }"),
      Chars(".line { display: flex; flex-wrap: wrap; margin: 0; line-height: 1.1; }"),
      Chars(".chord-lyric { display: inline-flex; flex-direction: column; margin-right: 0; }"),
      Chars(".chord { font-weight: bold; color: #d00; font-size: 0.9em; min-height: 1.2em; white-space: pre; }"),
      Chars(".lyric { white-space: pre; }"),
      Chars(".empty-line { height: 1em; }"),
      Chars(".meta { color: #666; margin: 0.25em 0; }"),
      Chars("@media print { .chord { color: #000; } }")
    >>, <<"\n">>)

PageHead ==
    Join(<<
      Chars("<!DOCTYPE html>"),
      Chars("<html lang=\"en\">"),
      Chars("<head>"),
      Chars("<meta charset=\"UTF-8\">"),
      Chars("<meta name=\"viewport\" content=\"width=device-width, initial-scale=1.0\">"),
      Chars("<style>"),
      DEFAULT_STYLES,
      Chars("</style>"),
      Chars("</head>"),
      Chars("<body>"),
      Chars("<div class=\"song\">")
    >>, <<"\n">>)

PageFoot == Chars("</div>\n</body>\n</html>")

\* escapeHtml is called with a value that is not a string (text.replace is
\* not a function) somewhere in the rendering of the node at ref.
RECURSIVE renderNodeThrows(_, _)
renderNodeThrows(h, ref) ==
    LET node == h[ref] IN
    CASE node.type = "directive" ->
             \/ ~IsString(node.value)
             \/ /\ node.name \notin {Chars("title"), Chars("subtitle"), Chars("comment"),
                                     Chars("comment_italic"), Chars("comment_box")}
                /\ ~IsString(node.name)
      [] node.type = "section" ->
             \E i \in 1..Len(node.lines) : renderNodeThrows(h, node.lines[i])
      [] OTHER -> FALSE

renderThrows(h, s) ==
    \E i \in 1..Len(h[s].nodes) : renderNodeThrows(h, h[s].nodes[i])

\* options.columns is not a property render reads.
render(h, s, options) ==
    IF Len(h[s].nodes) = 0 THEN <<>>
    ELSE LET body == Join([i \in 1..Len(h[s].nodes) |-> renderNode(h, h[s].nodes[i])],
                          <<"\n">>)
         IN  IF options.fullPage
             THEN PageHead \o <<"\n">> \o body \o <<"\n">> \o PageFoot
             ELSE body

\* chordproToHtml(input, options) of lib/index.ts; options.transpose,
\* options.notation and options.accidentalPreference are not read.
chordproToHtml(h, input, options) ==
    LET p == parse(h, input) IN
    [heap |-> p.heap, ref |-> p.ref,
     threw |-> renderThrows(p.heap, p.ref),
     html |-> IF renderThrows(p.heap, p.ref) THEN <<>>
              ELSE render(p.heap, p.ref, options)]

(***************************************************************************)
(* The pipeline as a state machine                                         *)
(***************************************************************************)

MaxLines == 3        \* lines of an input text
MaxChordLines == 2   \* lines of an input text of the transposition runs

MaxLineLen == 5      \* characters of a generated line
MaxNodes == 2        \* top-level nodes of a Song literal
MaxColumns == 2      \* the columns option of render

NoOptions == [notation |-> "none", accidentalPreference |-> "none"]

TransposeOptions ==
    [notation : {"none", "standard", "german"},
     accidentalPreference : {"none", "sharp", "flat"}]

\* The texts of at most n lines drawn from vocab, joined by "\n".
TextsOf(vocab, n) ==
    {Join(ls, <<"\n">>) : ls \in UNION {[1..k -> vocab] : k \in 0..n}}

ParseVocab ==
    {Chars(l) : l \in {"{soc: Chorus 2}", "{eoc: x}", "{start_of_verse}", "{eov}",
                       "{t: X}", " {Title: X} \r", "[C]Hello [Am]world", "",
                       "# c", "{constructor}"}}

ChordVocab ==
    {Chars(l) : l \in {"[C]Hello [Am/E]world", "[Db]a[G##]", "[F#m7]a[C#b5]", "[H]a",
                       "[Bb]a[N.C.][N.C./G]", "x[am][Ebb][h]", "{key: Eb}", "{soc}"}}

Semitones == {-12, -1, 0, 2, 12}

Fresh(t) ==
    /\ text = t
    /\ pc = "begin"
    /\ lines = <<>>
    /\ li = 0
    /\ nodes = <<>>
    /\ currentSection = NULL
    /\ heap = <<>>
    /\ song = NULL
    /\ cur = NULL
    /\ applied = <<>>
    /\ topts = NoOptions
    /\ ropts = [fullPage |-> FALSE, columns |-> 1]
    /\ html = <<>>

Init == \E t \in TextsOf(ParseVocab, MaxLines) : Fresh(t)

\* Node values a caller of render writes as literals; the lines of a section
\* value are node values.
PlainLineLiteral == LineNode(<<Pair(<<>>, Chars("a<\"b\">&")), Pair(<<>>, Chars(" &lt;"))>>)

ChordLineLiteral ==
    LineNode(<<Pair(<<>>, Chars("x > y")), Pair(Chars("A<b>&\""), Chars("x & y")),
               Pair(Chars("C"), <<>>)>>)

RenderNodeVocab ==
    { PlainLineLiteral,
      ChordLineLiteral,
      DirectiveNode(Chars("title"), Chars("Rock & Roll <\"Live\">")),
      DirectiveNode(Chars("a\"<&>"), Chars("<i>&amp;</i>")),
      DirectiveNode(Chars("key"), Chars("G")),
      EmptyNode,
      SectionNode(Chars("bridge"), <<<<>>>>, <<>>),
      SectionNode(Chars("chorus"), <<Chars("R&B <\"2\">")>>, <<ChordLineLiteral>>),
      SectionNode(Chars("v\"<&>"), <<>>,
                  <<PlainLineLiteral,
                    SectionNode(Chars("tab"), <<Chars("<&>")>>,
                                <<DirectiveNode(Chars("m<\">"), Chars("\"&\"")),
                                  ChordLineLiteral>>)>>) }

SongLiterals == UNION {[1..k -> RenderNodeVocab] : k \in 0..MaxNodes}

RenderOptions == [fullPage : BOOLEAN, columns : 1..MaxColumns]

\* The evaluation of a node literal on the heap h: the children first.
RECURSIVE BuildNode(_, _)
RECURSIVE BuildNodes(_, _)

BuildNode(h, v) ==
    IF v.type = "section"
    THEN LET kids == BuildNodes(h, v.lines)
         IN  [heap |-> Alloc(kids.heap, SectionNode(v.name, v.label, kids.ref)),
              ref |-> NewRef(kids.heap)]
    ELSE [heap |-> Alloc(h, v), ref |-> NewRef(h)]

BuildNodes(h, vs) ==
    IF vs = <<>> THEN [heap |-> h, ref |-> <<>>]
    ELSE LET first == BuildNode(h, Head(vs))
             others == BuildNodes(first.heap, Tail(vs))
         IN  [heap |-> others.heap, ref |-> <<first.ref>> \o others.ref]

\* The caller has no text: it writes the Song as a literal.
InitR ==
    /\ text = <<>>
    /\ pc = "literal"
    /\ lines = <<>>
    /\ li = 0
    /\ nodes = <<>>
    /\ currentSection = NULL
    /\ heap = <<>>
    /\ song = NULL
    /\ cur = NULL
    /\ applied = <<>>
    /\ topts = NoOptions
    /\ ropts = [fullPage |-> FALSE, columns |-> 1]
    /\ html = <<>>

\* The options of chordproToHtml: transpose is <<>> when absent, else <<n>>.
ChordproOptions ==
    [transpose : {<<>>, <<0>>, <<2>>, <<-1>>},
     notation : {"none", "german"},
     accidentalPreference : {"none", "flat"},
     fullPage : {FALSE},
     columns : {1}]

\* One-line texts: every lyric line over brackets, a letter and a blank, and
\* every directive line over the colon, a blank and letters the alias table
\* knows in one case or the other, with the two names Object.prototype has
\* in lowercase.
LyricTexts == UNION {[1..k -> {"[", "]", "a", " "}] : k \in 1..MaxLineLen}

DirectiveTexts ==
    {<<"{">> \o c \o <<"}">> :
        c \in UNION {[1..k -> {":", " ", "T", "s"}] : k \in 1..MaxLineLen}}
    \cup {Chars("{constructor}"), Chars("{__proto__: x}")}

InitP == \E t \in LyricTexts \cup DirectiveTexts : Fresh(t)

\* Lines with the root letter H in a token, after a "/" and in a key.
HVocab ==
    {Chars(l) : l \in {"[C/H]a", "{key: H}", "[H7]x[D]", "[hb]a", "[G]b", "{soc}",
                       "{key: h/C}"}}

InitH == \E t \in TextsOf(HVocab, MaxChordLines) : Fresh(t)

\* Lines with qualities that begin with "b" or "#", and plain ones.
TwiceVocab ==
    {Chars(l) : l \in {"[C#b5]a[Am/E]", "[Cb#5]x", "{key: Eb}", "[H]a[Bb]", "[G]b",
                       "{soc}"}}

\* The options that state both the notation and the accidental preference.
ExplicitOptions ==
    {o \in TransposeOptions : o.notation # "none" /\ o.accidentalPreference # "none"}

\* The semitone counts of a second call.
SecondSemitones == {-1, 1, 2, 12}

InitA == \E t \in TextsOf(TwiceVocab, MaxChordLines) : Fresh(t)

InitT == \E t \in TextsOf(ChordVocab, MaxChordLines) : Fresh(t)

\* parse, up to the for-loop.
ParseBegin ==
    /\ pc = "begin"
    /\ LET trimmed == TrimEnd(text) IN
       IF trimmed = <<>>
       THEN /\ heap' = Alloc(heap, SongObject(<<>>))
            /\ song' = NewRef(heap)
            /\ cur' = NewRef(heap)
            /\ pc' = "parsed"
            /\ UNCHANGED <<lines, li>>
       ELSE /\ lines' = SplitLines(trimmed)
            /\ li' = 1
            /\ pc' = "loop"
            /\ UNCHANGED <<heap, song, cur>>
    /\ UNCHANGED <<text, nodes, currentSection, applied, topts, ropts, html>>

\* One iteration of the for-loop of parse.
ParseStep ==
    /\ pc = "loop"
    /\ li <= Len(lines)
    /\ LET ps == ParseLine(ParseState(heap, nodes, currentSection), lines[li]) IN
       /\ heap' = ps.heap
       /\ nodes' = ps.nodes
       /\ currentSection' = ps.currentSection
    /\ li' = li + 1
    /\ UNCHANGED <<text, pc, lines, song, cur, applied, topts, ropts, html>>

\* parse, after the for-loop.
ParseEnd ==
    /\ pc = "loop"
    /\ li > Len(lines)
    /\ LET ps == ParseClose(ParseState(heap, nodes, currentSection)) IN
       /\ heap' = Alloc(ps.heap, SongObject(ps.nodes))
       /\ nodes' = ps.nodes
       /\ song' = NewRef(ps.heap)
       /\ cur' = NewRef(ps.heap)
    /\ pc' = "parsed"
    /\ UNCHANGED <<text, lines, li, currentSection, applied, topts, ropts, html>>

\* A call transpose(cur, n, o) on the parsed song, with n from ns and o from os.
TransposeCall(ns, os) ==
    /\ pc = "parsed"
    /\ applied = <<>>
    /\ \E n \in ns, o \in os :
          LET r == transpose(heap, cur, n, o) IN
          /\ heap' = r.heap
          /\ cur' = r.ref
          /\ applied' = <<n>>
          /\ topts' = o
    /\ UNCHANGED <<text, pc, lines, li, nodes, currentSection, song, ropts, html>>

\* A second call on the result of the first, with the same options: the
\* opposite semitone count, or one more semitone up.
TransposeBack ==
    /\ pc = "parsed"
    /\ Len(applied) = 1
    /\ \E n \in {-applied[1], 1} :
          LET r == transpose(heap, cur, n, topts) IN
          /\ heap' = r.heap
          /\ cur' = r.ref
          /\ applied' = Append(applied, n)
    /\ UNCHANGED <<text, pc, lines, li, nodes, currentSection, song, topts, ropts,
                   html>>

\* A second call on the result of the first, with the same options and a
\* semitone count from ns.
TransposeAgain(ns) ==
    /\ pc = "parsed"
    /\ Len(applied) = 1
    /\ \E n \in ns :
          LET r == transpose(heap, cur, n, topts) IN
          /\ heap' = r.heap
          /\ cur' = r.ref
          /\ applied' = Append(applied, n)
    /\ UNCHANGED <<text, pc, lines, li, nodes, currentSection, song, topts, ropts,
                   html>>

\* The caller evaluates a Song literal.
Construct ==
    /\ pc = "literal"
    /\ \E vs \in SongLiterals :
          LET built == BuildNodes(heap, vs) IN
          /\ heap' = Alloc(built.heap, SongObject(built.ref))
          /\ song' = NewRef(built.heap)
          /\ cur' = NewRef(built.heap)
    /\ pc' = "parsed"
    /\ UNCHANGED <<text, lines, li, nodes, currentSection, applied, topts, ropts, html>>

\* A call render(cur, o) with o from os.
RenderCall(os) ==
    /\ pc = "parsed"
    /\ \E o \in os :
          /\ ropts' = o
          /\ IF renderThrows(heap, cur)
             THEN pc' = "threw" /\ html' = <<>>
             ELSE pc' = "rendered" /\ html' = render(heap, cur, o)
    /\ UNCHANGED <<text, lines, li, nodes, currentSection, heap, song, cur, applied,
                   topts>>

\* A call chordproToHtml(text, o) with o from ChordproOptions.
ConvertCall ==
    /\ pc = "begin"
    /\ \E o \in ChordproOptions :
          LET r == chordproToHtml(heap, text, o) IN
          /\ heap' = r.heap
          /\ song' = r.ref
          /\ cur' = r.ref
          /\ html' = r.html
          /\ pc' = IF r.threw THEN "threw" ELSE "converted"
          /\ applied' = o.transpose
          /\ topts' = [notation |-> o.notation,
                       accidentalPreference |-> o.accidentalPreference]
          /\ ropts' = [fullPage |-> o.fullPage, columns |-> o.columns]
    /\ UNCHANGED <<text, lines, li, nodes, currentSection>>

DefaultRender == [fullPage |-> FALSE, columns |-> 1]

Next ==
    \/ ParseBegin
    \/ ParseStep
    \/ ParseEnd
    \/ TransposeCall({0, 2}, {NoOptions})
    \/ RenderCall({DefaultRender})

NextT ==
    \/ ParseBegin
    \/ ParseStep
    \/ ParseEnd
    \/ TransposeCall(Semitones, TransposeOptions)
    \/ TransposeBack

NextR == Construct \/ RenderCall(RenderOptions)

NextC == ConvertCall

NextH ==
    \/ ParseBegin
    \/ ParseStep
    \/ ParseEnd
    \/ TransposeCall(Semitones, TransposeOptions)

NextP == ParseBegin \/ ParseStep \/ ParseEnd

NextL == Construct \/ TransposeCall({-1, 2}, TransposeOptions)

Spec == Init /\ [][Next]_vars

SpecR == InitR /\ [][NextR]_vars

SpecT == InitT /\ [][NextT]_vars

SpecC == InitT /\ [][NextC]_vars

NextA ==
    \/ ParseBegin
    \/ ParseStep
    \/ ParseEnd
    \/ TransposeCall(Semitones, ExplicitOptions)
    \/ TransposeAgain(SecondSemitones)

SpecH == InitH /\ [][NextH]_vars

SpecA == InitA /\ [][NextA]_vars

SpecP == InitP /\ [][NextP]_vars

SpecL == InitR /\ [][NextL]_vars

(***************************************************************************)
(* Observations used by the properties                                     *)
(***************************************************************************)

Last(q) == q[Len(q)]

\* The references of the nodes of the node at ref: itself and, for a section,
\* the nodes of its children.
RECURSIVE NodeRefs(_, _)
NodeRefs(h, ref) ==
    {ref} \cup
    (IF h[ref].type = "section"
     THEN UNION {NodeRefs(h, h[ref].lines[i]) : i \in 1..Len(h[ref].lines)}
     ELSE {})

\* The references of every node of the song at s.
SongNodeRefs(h, s) == UNION {NodeRefs(h, h[s].nodes[i]) : i \in 1..Len(h[s].nodes)}

\* The chord fields of the node at ref, in order (empty ones included).
RECURSIVE NodeChords(_, _)
NodeChords(h, ref) ==
    LET node == h[ref] IN
    IF node.type = "line"
    THEN [i \in 1..Len(node.chords) |-> node.chords[i].chord]
    ELSE IF node.type = "section"
    THEN Concat([i \in 1..Len(node.lines) |-> NodeChords(h, node.lines[i])])
    ELSE <<>>

SongChords(h, s) ==
    Concat([i \in 1..Len(h[s].nodes) |-> NodeChords(h, h[s].nodes[i])])

\* The parts of a chord token between its "/" characters.
RECURSIVE SlashParts(_)
SlashParts(chord) ==
    LET k == IndexOf(chord, "/") IN
    IF k = -1 THEN <<chord>>
    ELSE <<Slice(chord, 0, k)>> \o SlashParts(SliceFrom(chord, k + 1))

\* The part has a root the note map of the notation knows.
Transposable(part, notation) ==
    /\ RootMatch(part) # <<>>
    /\ ToUpperChar(RootMatch(part)[1][1]) \in DOMAIN NoteMapOf(notation)

\* The pitch class 0..11 of a transposable part.
PitchClass(part, notation) ==
    LET m == RootMatch(part)
        acc == m[2]
        shift == CASE acc = <<"#">> -> 1 [] acc = <<"#", "#">> -> 2
                   [] acc = <<"b">> -> 11 [] acc = <<"b", "b">> -> 10 [] OTHER -> 0
    IN  (NoteMapOf(notation)[ToUpperChar(m[1][1])] + shift) % 12

\* The root of the part is written as the table of (notation, accPref) writes
\* its pitch class.
TableSpelled(part, notation, accPref) ==
    LET m == RootMatch(part) IN
    m[1] \o m[2] = SEMITONE_TO_NOTE[notation][accPref][PitchClass(part, notation) + 1]

\* Every part of the chord token is either not transposable or table-spelled.
ChordTableSpelled(chord, notation, accPref) ==
    \A i \in 1..Len(SlashParts(chord)) :
        Transposable(SlashParts(chord)[i], notation)
            => TableSpelled(SlashParts(chord)[i], notation, accPref)

\* No transposable part has a quality that begins with "#" or "b" (which a
\* second parse would read as part of the root).
ChordPlainQuality(chord, notation) ==
    \A i \in 1..Len(SlashParts(chord)) :
        LET part == SlashParts(chord)[i] IN
        Transposable(part, notation) =>
            \/ RootMatch(part)[3] = <<>>
            \/ RootMatch(part)[3][1] \notin {"#", "b"}

\* Notation and accidental preference of the first transpose call.
FirstNotation == NotationOf(heap, song, topts)
FirstAccPref == AccPrefOf(heap, song, topts)

(***************************************************************************)
(* Properties of transpose                                                 *)
(***************************************************************************)

C2_OctaveKeepsText ==
    (Len(applied) = 1 /\ applied[1] \in {12, -12})
        => SongChords(heap, cur) = SongChords(heap, song)

\* C2 amended: after transposing by 12 or -12 a chord token has its original
\* text exactly when each of its parts is not transposable or has its root
\* spelled as the table of the notation and accidental preference in effect
\* spells it.
C2_OctaveKeepsTableSpelling ==
    (Len(applied) = 1 /\ applied[1] \in {12, -12})
        => /\ Len(SongChords(heap, cur)) = Len(SongChords(heap, song))
           /\ \A i \in 1..Len(SongChords(heap, song)) :
                  (SongChords(heap, cur)[i] = SongChords(heap, song)[i])
                      <=> ChordTableSpelled(SongChords(heap, song)[i],
                                            FirstNotation, FirstAccPref)

C2_Witness ==
    /\ applied = <<-12>>
    /\ \E i \in 1..Len(SongChords(heap, song)) :
          /\ SongChords(heap, song)[i] = Chars("F#m7")
          /\ SongChords(heap, cur)[i] = Chars("F#m7")
    /\ \E i \in 1..Len(SongChords(heap, song)) :
          /\ SongChords(heap, song)[i] = Chars("Db")
          /\ SongChords(heap, cur)[i] = Chars("C#")

\* C3 as stated: transposing by n and then by -n gives every chord token its
\* original text.
C3_RoundTripKeepsText ==
    (Len(applied) = 2 /\ applied[2] = -applied[1])
        => SongChords(heap, cur) = SongChords(heap, song)

\* C3 amended: when both calls are given the same notation and the same
\* accidental preference, a chord token whose parts are table-spelled and
\* whose qualities do not begin with "#" or "b" has its original text after
\* transposing by n and then by -n.
C3_RoundTripKeepsTableSpelling ==
    (/\ Len(applied) = 2
     /\ applied[2] = -applied[1]
     /\ topts.notation # "none"
     /\ topts.accidentalPreference # "none")
        => /\ Len(SongChords(heap, cur)) = Len(SongChords(heap, song))
           /\ \A i \in 1..Len(SongChords(heap, song)) :
                  LET c == SongChords(heap, song)[i] IN
                  (/\ ChordTableSpelled(c, topts.notation, topts.accidentalPreference)
                   /\ ChordPlainQuality(c, topts.notation))
                      => SongChords(heap, cur)[i] = c

C3_Witness ==
    /\ applied = <<-1, 1>>
    /\ topts = [notation |-> "standard", accidentalPreference |-> "flat"]
    /\ \E i \in 1..Len(SongChords(heap, song)) :
          /\ SongChords(heap, song)[i] = Chars("Db")
          /\ SongChords(heap, cur)[i] = Chars("Db")
    /\ \E i \in 1..Len(SongChords(heap, song)) :
          /\ SongChords(heap, song)[i] = Chars("Am/E")
          /\ SongChords(heap, cur)[i] = Chars("Am/E")

\* C4 as stated: after a call with n # 0 the returned song shares no node
\* object with the song it was given.
C4_NoSharedNode ==
    (applied # <<>> /\ applied[1] # 0 /\ Len(applied) = 1)
        => SongNodeRefs(heap, cur) \cap SongNodeRefs(heap, song) = {}

\* C5: a call of transpose leaves every object that existed before it as it
\* was: the song it was given, its nodes, chord pairs, labels and strings.
C5_InputUntouched ==
    [][(applied' # applied /\ Last(applied') # 0)
          => /\ Len(heap') >= Len(heap)
             /\ \A r \in 1..Len(heap) : heap'[r] = heap[r]]_vars

C5_Witness ==
    /\ applied = <<2>>
    /\ cur # song
    /\ SongChords(heap, cur) # SongChords(heap, song)
    /\ \E r \in SongNodeRefs(heap, song) :
          heap[r].type = "section" /\ heap[r].lines # <<>>

(***************************************************************************)
(* Properties of parse                                                     *)
(***************************************************************************)

\* The value of the node at ref, children included (what toEqual compares).
RECURSIVE NodeValue(_, _)
NodeValue(h, ref) ==
    IF h[ref].type = "section"
    THEN [type |-> "section", name |-> h[ref].name, label |-> h[ref].label,
          lines |-> [i \in 1..Len(h[ref].lines) |-> NodeValue(h, h[ref].lines[i])]]
    ELSE h[ref]

SongValue(h, s) == [i \in 1..Len(h[s].nodes) |-> NodeValue(h, h[s].nodes[i])]

\* What a physical line is, read off its text: "comment", "empty", "start",
\* "end", "directive" or "lyric".
LineKind(rawLine) ==
    LET line == TrimEnd(rawLine)
        dm == DirectiveMatch(Trim(line))
    IN  IF TrimStart(line) # <<>> /\ TrimStart(line)[1] = "#" THEN "comment"
        ELSE IF Trim(line) = <<>> THEN "empty"
        ELSE IF dm = <<>> THEN "lyric"
        ELSE IF parseDirective(dm[1]).name \in DOMAIN SECTION_START THEN "start"
        ELSE IF parseDirective(dm[1]).name \in DOMAIN SECTION_END THEN "end"
        ELSE "directive"

\* The directive of a directive line.
LineDirective(rawLine) == parseDirective(DirectiveMatch(Trim(TrimEnd(rawLine)))[1])

\* The node a content line stands for.
LineValue(rawLine) ==
    CASE LineKind(rawLine) = "empty" -> EmptyNode
      [] LineKind(rawLine) = "directive" ->
             DirectiveNode(LineDirective(rawLine).name, LineDirective(rawLine).value)
      [] LineKind(rawLine) = "lyric" -> parseLyricLine(TrimEnd(rawLine))

ContentKinds == {"empty", "directive", "lyric"}

\* The nodes of the content lines among ls, in order.
ContentValues(ls) ==
    LET content == SelectSeq(ls, LAMBDA l : LineKind(l) \in ContentKinds)
    IN  [i \in 1..Len(content) |-> LineValue(content[i])]

\* The index of the section-start line that is still open at the end of the
\* lines ls: the last section directive, when it is a start.  0 if none.
OpenAtEnd(ls) ==
    LET marks == {k \in 1..Len(ls) : LineKind(ls[k]) \in {"start", "end"}} IN
    IF marks = {} THEN 0
    ELSE LET k == CHOOSE k \in marks : \A j \in marks : j <= k
         IN  IF LineKind(ls[k]) = "start" THEN k ELSE 0

Returned == pc \in {"parsed", "rendered", "threw"}

\* C6: when the input ends with a section open, the last top-level node of
\* the Song is that section, with the name and label of its start line and
\* the nodes of all content lines after it.
C6_UnclosedSectionKept ==
    (Returned /\ OpenAtEnd(lines) # 0)
        => LET k == OpenAtEnd(lines)
               d == LineDirective(lines[k])
               top == heap[song].nodes
           IN  /\ top # <<>>
               /\ NodeValue(heap, Last(top)) =
                      [type |-> "section",
                       name |-> SECTION_START[d.name],
                       label |-> IF d.value # <<>> THEN <<d.value>> ELSE <<>>,
                       lines |-> ContentValues(SubSeq(lines, k + 1, Len(lines)))]

C6_Witness ==
    /\ pc = "parsed"
    /\ applied = <<>>
    /\ text = Chars("{soc: Chorus 2}\n[C]Hello [Am]world\n{t: X}")
    /\ Len(heap[song].nodes) = 1
    /\ heap[heap[song].nodes[1]].label = <<Chars("Chorus 2")>>
    /\ Len(heap[heap[song].nodes[1]].lines) = 2

\* The line is the section-end directive of the section called name.
MatchingEnd(rawLine, name) ==
    /\ LineKind(rawLine) = "end"
    /\ SECTION_END[LineDirective(rawLine).name] = name

\* C7 as stated: while a section is open, a line other than the matching
\* end_of_X leaves the section open and appends nothing to the top level; the
\* matching end_of_X, whatever its value, appends the section to the top
\* level and clears the current section.
C7_OpenUntilMatchingEnd ==
    [][(pc = "loop" /\ li' = li + 1 /\ currentSection # NULL)
          => IF MatchingEnd(lines[li], heap[currentSection].name)
             THEN nodes' = Append(nodes, currentSection) /\ currentSection' = NULL
             ELSE nodes' = nodes /\ currentSection' = currentSection]_vars

\* The lines of the vocabulary that spell the directive {title: X}.
TitleSpellings == {Chars("{t: X}"), Chars(" {Title: X} ")}

\* C8 as stated: every Directive node has a lowercase, alias-expanded string
\* as its name, and spelling a directive by its alias or in another case
\* gives the same Song.
C8_CanonicalNames ==
    Returned
        => /\ \A r \in 1..Len(heap) :
                 heap[r].type = "directive"
                     => /\ IsString(heap[r].name)
                        /\ heap[r].name = ToLowerCase(heap[r].name)
                        /\ heap[r].name \notin DOMAIN DIRECTIVE_ALIASES
           /\ LET long == [i \in 1..Len(lines) |->
                              IF lines[i] \in TitleSpellings
                              THEN Chars("{title: X}") ELSE lines[i]]
                  p == parse(<<>>, Join(long, <<"\n">>))
              IN  SongValue(heap, song) = SongValue(p.heap, p.ref)

(***************************************************************************)
(* Properties of render                                                    *)
(***************************************************************************)

\* The four characters escapeHtml replaces, the entity of each and a
\* character that stands for it (one that no markup and no input holds).
Specials ==
    { [raw |-> "&", entity |-> Chars("&amp;"), mark |-> "^"],
      [raw |-> "<", entity |-> Chars("&lt;"), mark |-> "%"],
      [raw |-> ">", entity |-> Chars("&gt;"), mark |-> "|"],
      [raw |-> "\"", entity |-> Chars("&quot;"), mark |-> "$"] }

\* The content string t with every special character replaced by its mark.
Marked(t) ==
    [i \in 1..Len(t) |->
        IF \E x \in Specials : x.raw = t[i]
        THEN (CHOOSE x \in Specials : x.raw = t[i]).mark
        ELSE t[i]]

\* The heap h with every content string of every node marked.
MarkedHeap(h) ==
    [r \in 1..Len(h) |->
        CASE h[r].type = "line" ->
                 LineNode([i \in 1..Len(h[r].chords) |->
                              Pair(Marked(h[r].chords[i].chord),
                                   Marked(h[r].chords[i].lyric))])
          [] h[r].type = "directive" ->
                 DirectiveNode(Marked(h[r].name), Marked(h[r].value))
          [] h[r].type = "section" ->
                 SectionNode(Marked(h[r].name),
                             [i \in 1..Len(h[r].label) |-> Marked(h[r].label[i])],
                             h[r].lines)
          [] OTHER -> h[r]]

\* The entity that begins at position i of s, as a set of at most one.
EntityAt(s, i) ==
    {x \in Specials :
        /\ s[i] = "&"
        /\ i + Len(x.entity) - 1 <= Len(s)
        /\ SubSeq(s, i, i + Len(x.entity) - 1) = x.entity}

\* The output s read back: every entity replaced by the mark of its
\* character, everything else as it is.
Unescaped(s) ==
    LET longest == 6
        first(i) == IF i > longest THEN i - longest + 1 ELSE 1
        inside(i) == \E j \in first(i)..(i - 1) :
                        \E x \in EntityAt(s, j) : i <= j + Len(x.entity) - 1
        token(i) == IF EntityAt(s, i) # {}
                    THEN (CHOOSE x \in EntityAt(s, i) : TRUE).mark
                    ELSE IF inside(i) THEN "" ELSE s[i]
    IN  SelectSeq([i \in 1..Len(s) |-> token(i)], LAMBDA c : c # "")

\* Some content string of the song holds the character c.
SongHolds(h, s, c) ==
    \E r \in SongNodeRefs(h, s) :
        LET has(t) == \E i \in 1..Len(t) : t[i] = c IN
        CASE h[r].type = "line" ->
                 \E i \in 1..Len(h[r].chords) :
                     has(h[r].chords[i].chord) \/ has(h[r].chords[i].lyric)
          [] h[r].type = "directive" -> has(h[r].name) \/ has(h[r].value)
          [] h[r].type = "section" ->
                 has(h[r].name) \/ \E i \in 1..Len(h[r].label) : has(h[r].label[i])
          [] OTHER -> FALSE

\* C9: the output holds, in place of every &, <, > and " of a lyric, chord,
\* directive value, directive name, section name or section label, the
\* entity of that character: read back entity by entity, the output is the
\* rendering of the song whose content has a mark for each such character,
\* so no raw special character of the output comes from the content.
C9_ContentEscaped ==
    pc = "rendered" => Unescaped(html) = render(MarkedHeap(heap), cur, ropts)

C9_Witness ==
    /\ pc = "rendered"
    /\ ropts.fullPage
    /\ Len(heap[cur].nodes) = 2
    /\ heap[heap[cur].nodes[1]].type = "section"
    /\ \E r \in SongNodeRefs(heap, cur) :
          heap[r].type = "section" /\ r \notin {heap[cur].nodes[i] : i \in 1..2}
    /\ \A x \in Specials : SongHolds(heap, cur, x.raw)
    /\ Unescaped(html) # html

\* C10 as stated: with columns > 1 the output for a song that is not empty
\* shows the requested number of columns: it is not the output for one
\* column.
C10_ColumnsReflected ==
    (pc = "rendered" /\ ropts.columns > 1 /\ heap[cur].nodes # <<>>)
        => html # render(heap, cur, [ropts EXCEPT !.columns = 1])

(***************************************************************************)
(* Properties of chordproToHtml                                            *)
(***************************************************************************)

\* parse, then transpose when options.transpose is a non-zero number, then
\* render: the output, <<>> when render throws.
PipelineHtml(t, transposeOption, tOptions, rOptions) ==
    LET p == parse(<<>>, t)
        q == IF transposeOption # <<>> /\ transposeOption[1] # 0
             THEN transpose(p.heap, p.ref, transposeOption[1], tOptions)
             ELSE p
    IN  IF renderThrows(q.heap, q.ref) THEN <<>> ELSE render(q.heap, q.ref, rOptions)

\* C11 as stated: the output of chordproToHtml(text, options) is the output
\* of parse, transpose by options.transpose with the notation and accidental
\* preference of the options when it is not 0, and render.
C11_ConvertIsPipeline ==
    pc = "converted" => html = PipelineHtml(text, applied, topts, ropts)

(***************************************************************************)
(* Properties of the whole pipeline                                        *)
(***************************************************************************)

\* C12 as stated: parse, transpose and render of any text return; no call
\* raises an error.
C12_NeverThrows == pc # "threw"

\* The positions of the tags of the markup s, in order.
TagPositions(s) == SelectSeq([i \in 1..Len(s) |-> i], LAMBDA i : s[i] = "<")

\* The elements of the markup s that lie in no other element, in order,
\* each with its tags.
TopBlocks(s) ==
    LET tags == TagPositions(s)
        closes(k) == s[tags[k] + 1] = "/"
        after[k \in 0..Len(tags)] ==
            IF k = 0 THEN 0
            ELSE IF closes(k) THEN after[k - 1] - 1 ELSE after[k - 1] + 1
        opens == SelectSeq([k \in 1..Len(tags) |-> k],
                           LAMBDA k : ~closes(k) /\ after[k - 1] = 0)
        closer(k) == CHOOSE c \in k..Len(tags) :
                         after[c] = 0 /\ \A j \in k..(c - 1) : after[j] # 0
        end(c) == CHOOSE e \in tags[c]..Len(s) :
                      s[e] = ">" /\ \A j \in tags[c]..(e - 1) : s[j] # ">"
    IN  [b \in 1..Len(opens) |-> SubSeq(s, tags[opens[b]], end(closer(opens[b])))]

\* What lies between the tags of the element block.
InnerMarkup(block) ==
    LET open == CHOOSE e \in 1..Len(block) :
                    block[e] = ">" /\ \A j \in 1..(e - 1) : block[j] # ">"
        close == Last(TagPositions(block))
    IN  SubSeq(block, open + 1, close - 1)

HasLabel(node) == node.label # <<>> /\ node.label[1] # <<>>

\* The blocks are the renderings of the nodes at refs, one each, in order.
BlocksOf(h, refs, blocks) ==
    /\ Len(blocks) = Len(refs)
    /\ \A i \in 1..Len(refs) : blocks[i] = renderNode(h, refs[i])

\* Inside the block of the section node come, after the label if it has one,
\* the blocks of its lines, one each, in order.
SectionBlockOf(h, node, block) ==
    LET inner == TopBlocks(InnerMarkup(block))
        skip == IF HasLabel(node) THEN 1 ELSE 0
    IN  /\ Len(inner) = Len(node.lines) + skip
        /\ BlocksOf(h, node.lines, SubSeq(inner, skip + 1, Len(inner)))

\* The markup m has one top-level block per top-level node of the song s,
\* in order, and the lines of each section inside the block of the section.
OneBlockPerNode(h, s, m) ==
    /\ BlocksOf(h, h[s].nodes, TopBlocks(m))
    /\ \A i \in 1..Len(h[s].nodes) :
          h[h[s].nodes[i]].type = "section"
              => SectionBlockOf(h, h[h[s].nodes[i]], TopBlocks(m)[i])

\* C13 as stated: for every text, render(parse(text)) returns markup with
\* exactly one top-level block per top-level node, in the order of the
\* nodes, the children of a section inside its block in their order.
C13_OneBlockPerNode ==
    (pc \in {"rendered", "threw"} /\ applied = <<>>)
        => pc = "rendered" /\ OneBlockPerNode(heap, cur, html)

(***************************************************************************)
(* Properties of the transposition of a token                              *)
(***************************************************************************)

\* A first call transpose(song, n, topts) with n # 0 has returned cur.
Transposed == Len(applied) = 1 /\ applied[1] # 0

HasSlash(chord) == IndexOf(chord, "/") # -1

\* The table of the notation and accidental preference in effect.
TableInEffect == SEMITONE_TO_NOTE[FirstNotation][FirstAccPref]

\* C14 as stated: a token without "/" that matches the root pattern becomes
\* the table entry at (base semitone of the root + accidental offset + n)
\* modulo 12, an index in 0..11, followed by its suffix, whatever the
\* notation and the accidental preference.
C14_TableLookup ==
    Transposed =>
        \A i \in 1..Len(SongChords(heap, song)) :
            LET c == SongChords(heap, song)[i]
                m == RootMatch(c)
                root == ToUpperChar(m[1][1])
                bases == IF root \in DOMAIN NoteMapOf(FirstNotation)
                         THEN {NoteMapOf(FirstNotation)[root]} ELSE 0..11
            IN  (~HasSlash(c) /\ m # <<>>)
                    => \E base \in bases :
                          SongChords(heap, cur)[i] =
                              TableInEffect[((base + accidentalOffset(m[2]) + applied[1]) % 12) + 1]
                              \o m[3]

\* C14 amended: the same for a token whose root letter is a note of the
\* notation in effect; a token with root H or h under standard notation
\* stays as it is.
C14_TableLookupKnownRoot ==
    Transposed =>
        \A i \in 1..Len(SongChords(heap, song)) :
            LET c == SongChords(heap, song)[i] IN
            (~HasSlash(c) /\ RootMatch(c) # <<>>)
                => SongChords(heap, cur)[i] =
                       IF Transposable(c, FirstNotation)
                       THEN TableInEffect[((PitchClass(c, FirstNotation) + applied[1]) % 12) + 1]
                            \o RootMatch(c)[3]
                       ELSE c

C14_Witness ==
    /\ applied = <<-1>>
    /\ FirstNotation = "standard"
    /\ \E i \in 1..Len(SongChords(heap, song)) :
          SongChords(heap, song)[i] = Chars("C") /\ SongChords(heap, cur)[i] = Chars("B")
    /\ \E i \in 1..Len(SongChords(heap, song)) :
          SongChords(heap, song)[i] = Chars("Ebb") /\ SongChords(heap, cur)[i] = Chars("C#")

(***************************************************************************)
(* Properties of the detection of notation and accidental preference       *)
(***************************************************************************)

\* The value of the song transpose(song, n, options) returns.
TransposedValue(n, options) ==
    LET r == transpose(heap, song, n, options) IN SongValue(r.heap, r.ref)

\* The chord tokens of the lines of the input song, those in sections too.
Tokens == SelectSeq(SongChords(heap, song), LAMBDA c : c # <<>>)

\* Some chord token has the root letter H or h.
SomeRootH == \E i \in 1..Len(Tokens) : Tokens[i][1] \in {"H", "h"}

\* C15: without options.notation the result is the one German notation
\* gives when some chord token of the song has the root letter H or h, and
\* the one standard notation gives otherwise; with options.notation the
\* tokens are read and written in that notation whatever the song holds.
C15_NotationDetected ==
    Transposed =>
        IF topts.notation = "none"
        THEN SongValue(heap, cur) =
                 TransposedValue(applied[1],
                     [topts EXCEPT !.notation =
                         IF SomeRootH THEN "german" ELSE "standard"])
        ELSE \A i \in 1..Len(SongChords(heap, song)) :
                 LET c == SongChords(heap, song)[i] IN
                 (~HasSlash(c) /\ Transposable(c, topts.notation))
                     => SongChords(heap, cur)[i] =
                            SEMITONE_TO_NOTE[topts.notation][FirstAccPref]
                                [((PitchClass(c, topts.notation) + applied[1]) % 12) + 1]
                            \o RootMatch(c)[3]

\* A root H found only inside a section: [H] up 2 is Db, where standard
\* notation would leave it as it is.
C15_Witness ==
    /\ applied = <<2>>
    /\ topts = NoOptions
    /\ Len(heap[song].nodes) = 1
    /\ heap[heap[song].nodes[1]].type = "section"
    /\ Tokens = <<Chars("H")>>
    /\ SongChords(heap, cur) = <<Chars("Db")>>

\* The tokens whose root letter is followed by the character a.
TokensWith(a) ==
    {i \in 1..Len(Tokens) :
        /\ Tokens[i][1] \in RootLetters
        /\ Len(Tokens[i]) >= 2
        /\ Tokens[i][2] = a}

\* The accidental preference C16 states for the song: the majority of the
\* root accidentals, and on a tie flat under German notation, else sharp.
MajorityPreference ==
    LET sharps == Cardinality(TokensWith("#"))
        flats == Cardinality(TokensWith("b"))
    IN  IF flats > sharps THEN "flat"
        ELSE IF sharps > flats THEN "sharp"
        ELSE IF FirstNotation = "german" THEN "flat" ELSE "sharp"

\* C16: without options.accidentalPreference the result is the one the
\* majority preference gives.
C16_PreferenceDetected ==
    (Transposed /\ topts.accidentalPreference = "none")
        => SongValue(heap, cur) =
               TransposedValue(applied[1],
                   [topts EXCEPT !.accidentalPreference = MajorityPreference])

\* A tie under German notation: [H] down 1 is B, not A#.
C16_Witness ==
    /\ applied = <<-1>>
    /\ topts = NoOptions
    /\ Tokens = <<Chars("H")>>
    /\ SongChords(heap, cur) = <<Chars("B")>>

(***************************************************************************)
(* Properties of slash chords and of the key directive                     *)
(***************************************************************************)

\* What the rule of C14 makes of one part of a token.
ShiftedPart(part) ==
    IF Transposable(part, FirstNotation)
    THEN TableInEffect[((PitchClass(part, FirstNotation) + applied[1]) % 12) + 1]
         \o RootMatch(part)[3]
    ELSE part

\* The parts of the token between its "/", each shifted, with "/" between.
ShiftedToken(token) ==
    Join([k \in 1..Len(SlashParts(token)) |-> ShiftedPart(SlashParts(token)[k])],
         <<"/">>)

\* C17: a token with "/" becomes its part before the "/" and its part after
\* it, each transposed on its own by the rule for a token, with "/" between.
C17_SlashPartsShifted ==
    Transposed =>
        \A i \in 1..Len(SongChords(heap, song)) :
            HasSlash(SongChords(heap, song)[i])
                => SongChords(heap, cur)[i] = ShiftedToken(SongChords(heap, song)[i])

C17_Witness ==
    /\ applied = <<2>>
    /\ \E i \in 1..Len(SongChords(heap, song)) :
          /\ SongChords(heap, song)[i] = Chars("Am/E")
          /\ SongChords(heap, cur)[i] = Chars("Bm/F#")
    /\ \E i \in 1..Len(SongChords(heap, song)) :
          /\ SongChords(heap, song)[i] = Chars("N.C./G")
          /\ SongChords(heap, cur)[i] = Chars("N.C./A")

\* The references of the nodes below refs, a section before its lines.
RECURSIVE Preorder(_, _)
Preorder(h, refs) ==
    IF refs = <<>> THEN <<>>
    ELSE (<<Head(refs)>>
          \o (IF h[Head(refs)].type = "section"
              THEN Preorder(h, h[Head(refs)].lines) ELSE <<>>))
         \o Preorder(h, Tail(refs))

SongPreorder(h, s) == Preorder(h, h[s].nodes)

IsKey(node) == node.type = "directive" /\ node.name = Chars("key")

\* C18: every directive named key, in a section or not, has as its value
\* the old value transposed as one chord token, in the notation and with
\* the accidental preference of the song's chords.
C18_KeyShifted ==
    Transposed =>
        /\ Len(SongPreorder(heap, cur)) = Len(SongPreorder(heap, song))
        /\ \A i \in 1..Len(SongPreorder(heap, song)) :
              LET old == heap[SongPreorder(heap, song)[i]]
                  new == heap[SongPreorder(heap, cur)[i]]
              IN  IsKey(old) => IsKey(new) /\ new.value = ShiftedToken(old.value)

\* {key: Eb} inside a section: up 2 is F.
C18_Witness ==
    /\ applied = <<2>>
    /\ topts = NoOptions
    /\ Len(heap[song].nodes) = 1
    /\ heap[heap[song].nodes[1]].type = "section"
    /\ \E i \in 1..Len(SongPreorder(heap, song)) :
          /\ IsKey(heap[SongPreorder(heap, song)[i]])
          /\ heap[SongPreorder(heap, song)[i]].value = Chars("Eb")
          /\ heap[SongPreorder(heap, cur)[i]].value = Chars("F")

(***************************************************************************)
(* The shape of the result of transpose                                    *)
(***************************************************************************)

\* The node value v with every chord that is not empty and every value of a
\* key directive blanked.
RECURSIVE Shape(_)
Shape(v) ==
    CASE v.type = "line" ->
             [v EXCEPT !.chords =
                 [i \in 1..Len(v.chords) |->
                     Pair(IF v.chords[i].chord = <<>> THEN <<>> ELSE <<"*">>,
                          v.chords[i].lyric)]]
      [] v.type = "directive" ->
             IF v.name = Chars("key") THEN [v EXCEPT !.value = <<"*">>] ELSE v
      [] v.type = "section" ->
             [v EXCEPT !.lines = [i \in 1..Len(v.lines) |-> Shape(v.lines[i])]]
      [] OTHER -> v

SongShape(h, s) == [i \in 1..Len(SongValue(h, s)) |-> Shape(SongValue(h, s)[i])]

FlatSections(h) ==
    \A r \in 1..Len(h) :
        h[r].type = "section"
            => \A i \in 1..Len(h[r].lines) : h[h[r].lines[i]].type # "section"

\* The sections of h other than the one at ref are in g as they are in h.
OtherSectionsKept(h, g, ref) ==
    \A r \in 1..Len(h) : (h[r].type = "section" /\ r # ref) => g[r] = h[r]

\* C20: no section holds a section, after every step of parse.  While the
\* lines are read the one current section is not at the top level; the node of a
\* line goes to the top level when no section is open and to the lines of
\* the open section otherwise; and a section-start makes a new current
\* section without lines and puts nothing into any section or the top level.
C20_SectionsStayFlat ==
    [][/\ FlatSections(heap')
       /\ (pc' = "loop" /\ currentSection' # NULL)
              => /\ heap'[currentSection'].type = "section"
                 /\ \A i \in 1..Len(nodes') : nodes'[i] # currentSection'
       /\ (pc = "loop" /\ li' = li + 1 /\ LineKind(lines[li]) \in ContentKinds)
              => /\ Len(heap') = Len(heap) + 1
                 /\ heap'[Len(heap')] = LineValue(lines[li])
                 /\ currentSection' = currentSection
                 /\ OtherSectionsKept(heap, heap', currentSection)
                 /\ IF currentSection = NULL
                    THEN nodes' = Append(nodes, Len(heap'))
                    ELSE /\ nodes' = nodes
                         /\ heap'[currentSection].lines =
                                Append(heap[currentSection].lines, Len(heap'))
       /\ (pc = "loop" /\ li' = li + 1 /\ LineKind(lines[li]) = "start")
              => /\ currentSection' = Len(heap) + 1
                 /\ heap' = Append(heap, heap'[currentSection'])
                 /\ heap'[currentSection'].lines = <<>>
                 /\ nodes' = nodes
      ]_vars

\* A section-start inside an open section that holds a line: the Song has
\* the new section alone.
C20_Witness ==
    /\ pc = "parsed"
    /\ text = Chars("{soc: Chorus 2}\n[C]Hello [Am]world\n{start_of_verse}")
    /\ Len(heap[song].nodes) = 1
    /\ heap[heap[song].nodes[1]].name = Chars("verse")
    /\ heap[heap[song].nodes[1]].lines = <<>>

(***************************************************************************)
(* Properties of the parsing of one line                                   *)
(***************************************************************************)

\* The line read character by character as C21 tells it: k is the next
\* position, pairs the pairs so far, inside whether a span is open.
RECURSIVE ScanPairs(_, _, _, _)
ScanPairs(line, k, pairs, inside) ==
    IF k > Len(line) THEN pairs
    ELSE IF inside
    THEN IF line[k] = "]" THEN ScanPairs(line, k + 1, pairs, FALSE)
         ELSE ScanPairs(line, k + 1,
                        [pairs EXCEPT ![Len(pairs)].chord = @ \o <<line[k]>>], TRUE)
    ELSE IF line[k] = "[" /\ \E j \in (k + 1)..Len(line) : line[j] = "]"
    THEN ScanPairs(line, k + 1, Append(pairs, Pair(<<>>, <<>>)), TRUE)
    ELSE IF pairs = <<>>
    THEN ScanPairs(line, k + 1, <<Pair(<<>>, <<line[k]>>)>>, FALSE)
    ELSE ScanPairs(line, k + 1,
                   [pairs EXCEPT ![Len(pairs)].lyric = @ \o <<line[k]>>], FALSE)

\* The number of characters of the fields f of the pairs.
RECURSIVE TotalLen(_, _)
TotalLen(pairs, f) ==
    IF pairs = <<>> THEN 0 ELSE Len(Head(pairs)[f]) + TotalLen(Tail(pairs), f)

\* The text is one lyric line and parse has returned its Song.
LyricLineParsed ==
    /\ pc = "parsed"
    /\ Len(lines) = 1
    /\ LineKind(lines[1]) = "lyric"

\* C21: the Song of a lyric line is one line node whose pairs are those of
\* the line read left to right, without its trailing blanks: a span [..] up
\* to the next "]" opens a pair, other text goes to the lyric of the last
\* pair or to a leading pair with chord "".  There is at least one pair, one
\* pair alone with the whole line when the line has no span, and the
\* characters of the line are those of the lyrics, of the chords and of the
\* two brackets of each span.
C21_PairsOfLine ==
    LyricLineParsed =>
        LET line == TrimEnd(lines[1])
            node == heap[heap[song].nodes[1]]
            leads == IF BracketMatch(line, 0) # <<>> /\ BracketMatch(line, 0)[1] = 0
                     THEN 0 ELSE 1
        IN  /\ Len(heap[song].nodes) = 1
            /\ node.type = "line"
            /\ Len(node.chords) >= 1
            /\ node.chords = ScanPairs(line, 1, <<>>, FALSE)
            /\ BracketMatch(line, 0) = <<>> => node.chords = <<Pair(<<>>, line)>>
            /\ Len(line) = TotalLen(node.chords, "lyric") + TotalLen(node.chords, "chord")
                           + 2 * (Len(node.chords) - leads)

\* " [[]a": a leading pair with the blank kept, then the span whose inner
\* text holds a bracket.
C21_Witness ==
    /\ LyricLineParsed
    /\ text = <<" ", "[", "[", "]", "a">>
    /\ heap[heap[song].nodes[1]].chords =
           <<Pair(<<>>, <<" ">>), Pair(<<"[">>, <<"a">>)>>

\* The text is one directive line and parse has returned its Song.
DirectiveLineParsed ==
    /\ pc = "parsed"
    /\ Len(lines) = 1
    /\ DirectiveMatch(Trim(TrimEnd(lines[1]))) # <<>>

\* What stands between the braces of the directive line.
Content == DirectiveMatch(Trim(TrimEnd(lines[1])))[1]

FirstColon == CHOOSE k \in 1..Len(Content) :
                  Content[k] = ":" /\ \A j \in 1..(k - 1) : Content[j] # ":"

HasColon == \E k \in 1..Len(Content) : Content[k] = ":"

\* The name C22 states: what precedes the first colon, or everything when
\* there is none, trimmed, in lowercase, an alias replaced by its long form.
StatedName ==
    LET lower == ToLowerCase(Trim(IF HasColon THEN SubSeq(Content, 1, FirstColon - 1)
                                  ELSE Content))
    IN  IF lower \in DOMAIN DIRECTIVE_ALIASES THEN DIRECTIVE_ALIASES[lower] ELSE lower

\* The value C22 states: what follows the first colon, trimmed, or "".
StatedValue ==
    IF HasColon THEN Trim(SubSeq(Content, FirstColon + 1, Len(Content))) ELSE <<>>

\* C22 as stated: the Song of a directive line that neither starts nor ends
\* a section is one directive with the stated name and the stated value.
C22_NameAndValue ==
    (DirectiveLineParsed /\ StatedName \notin DOMAIN SECTION_START \cup DOMAIN SECTION_END)
        => /\ Len(heap[song].nodes) = 1
           /\ heap[heap[song].nodes[1]] = DirectiveNode(StatedName, StatedValue)

(***************************************************************************)
(* Properties of the rendering of a lyric line                             *)
(***************************************************************************)

\* The first tag of the element block.
OpenTag(block) ==
    SubSeq(block, 1, CHOOSE e \in 1..Len(block) :
                         block[e] = ">" /\ \A j \in 1..(e - 1) : block[j] # ">")

\* The element wrapper is the chord-lyric wrapper of the pair: a chord span
\* with the escaped chord and a lyric span with the escaped lyric, or the
\* non-breaking space when the lyric is empty.
WrapperOf(pair, wrapper) ==
    LET spans == TopBlocks(InnerMarkup(wrapper)) IN
    /\ OpenTag(wrapper) = Chars("<span class=\"chord-lyric\">")
    /\ Len(spans) = 2
    /\ spans[1] \o spans[2] = InnerMarkup(wrapper)
    /\ OpenTag(spans[1]) = Chars("<span class=\"chord\">")
    /\ InnerMarkup(spans[1]) = escapeHtml(pair.chord)
    /\ OpenTag(spans[2]) = Chars("<span class=\"lyric\">")
    /\ InnerMarkup(spans[2]) =
           IF pair.lyric = <<>> THEN <<NBSP>> ELSE escapeHtml(pair.lyric)

\* The element block is the rendering C23 states for the line node: the
\* escaped lyrics alone and no markup exactly when every chord is empty,
\* else a wrapper per pair, in order.
LineBlockOf(node, block) ==
    LET inner == InnerMarkup(block)
        allEmpty == \A k \in 1..Len(node.chords) : node.chords[k].chord = <<>>
        wrappers == TopBlocks(inner)
    IN  /\ OpenTag(block) = Chars("<div class=\"line\">")
        /\ allEmpty <=> TagPositions(inner) = <<>>
        /\ IF allEmpty
           THEN inner = escapeHtml(Concat([k \in 1..Len(node.chords) |->
                                              node.chords[k].lyric]))
           ELSE /\ Len(wrappers) = Len(node.chords)
                /\ Concat(wrappers) = inner
                /\ \A k \in 1..Len(node.chords) : WrapperOf(node.chords[k], wrappers[k])

\* C23: in the output of render every block of a top-level line node is the
\* rendering stated for the line.
C23_LineRendering ==
    (pc = "rendered" /\ ~ropts.fullPage)
        => /\ Len(TopBlocks(html)) = Len(heap[cur].nodes)
           /\ \A i \in 1..Len(heap[cur].nodes) :
                  heap[heap[cur].nodes[i]].type = "line"
                      => LineBlockOf(heap[heap[cur].nodes[i]], TopBlocks(html)[i])

\* A line without chords next to a line with chords, an empty chord and an
\* empty lyric.
C23_Witness ==
    /\ pc = "rendered"
    /\ ~ropts.fullPage
    /\ Len(heap[cur].nodes) = 2
    /\ heap[heap[cur].nodes[1]] = PlainLineLiteral
    /\ heap[heap[cur].nodes[2]] = ChordLineLiteral
    /\ \E i \in 1..Len(html) : html[i] = NBSP

(***************************************************************************)
(* No content line is lost                                                 *)
(***************************************************************************)

\* The nodes of the song at s that are not sections, a section's lines in
\* the place of the section, in order.
ContentNodes(h, s) ==
    LET refs == SelectSeq(SongPreorder(h, s), LAMBDA r : h[r].type # "section")
    IN  [i \in 1..Len(refs) |-> h[refs[i]]]

\* C24 as stated: the nodes of the returned Song that are not sections, at
\* the top level or in a section, are the nodes of the lyric lines, blank
\* lines and directives other than section directives of the text, one for
\* each and in the order of the text.
C24_NoLineLost ==
    Returned => ContentNodes(heap, song) = ContentValues(lines)

(***************************************************************************)
(* The root letter H                                                       *)
(***************************************************************************)

\* The chord tokens and the values of the key directives of the song at s,
\* in order.
ChordsAndKeys(h, s) ==
    LET order == SongPreorder(h, s) IN
    Concat([i \in 1..Len(order) |->
               IF h[order[i]].type = "line"
               THEN [k \in 1..Len(h[order[i]].chords) |-> h[order[i]].chords[k].chord]
               ELSE IF IsKey(h[order[i]]) THEN <<h[order[i]].value>>
               ELSE <<>>])

\* The parts between "/" of all of them, in order.
PartsOf(h, s) ==
    Concat([i \in 1..Len(ChordsAndKeys(h, s)) |-> SlashParts(ChordsAndKeys(h, s)[i])])

RootIsH(part) == part # <<>> /\ part[1] \in {"H", "h"}

\* C25: under standard notation a part with the root letter H or h is in
\* the result as it was, and under German notation it is the table entry
\* for 11, its accidental and n, with its suffix; the parts with another
\* root are shifted.
C25_RootH ==
    Transposed =>
        /\ Len(PartsOf(heap, cur)) = Len(PartsOf(heap, song))
        /\ \A i \in 1..Len(PartsOf(heap, song)) :
              LET old == PartsOf(heap, song)[i]
                  new == PartsOf(heap, cur)[i]
              IN  IF RootIsH(old)
                  THEN IF FirstNotation = "standard" THEN new = old
                       ELSE new = TableInEffect[((11 + accidentalOffset(RootMatch(old)[2])
                                                  + applied[1]) % 12) + 1]
                                  \o RootMatch(old)[3]
                  ELSE new = ShiftedPart(old)

\* Standard notation detected, as no token begins with H: [C/H] up 2 is D/H
\* and the key H stays.
C25_Witness ==
    /\ applied = <<2>>
    /\ topts = NoOptions
    /\ ChordsAndKeys(heap, song) = <<Chars("H"), Chars("C/H")>>
    /\ ChordsAndKeys(heap, cur) = <<Chars("H"), Chars("D/H")>>

(***************************************************************************)
(* Two calls and one call                                                  *)
(***************************************************************************)

\* Two calls were made, neither by 0 nor adding up to 0, with the notation
\* and the accidental preference both stated.
TwoSteps ==
    /\ Len(applied) = 2
    /\ applied[1] # 0
    /\ applied[2] # 0
    /\ applied[1] + applied[2] # 0
    /\ topts \in ExplicitOptions

\* The chord tokens and key values of transpose(song, n, topts).
OneStep(n) ==
    LET r == transpose(heap, song, n, topts) IN ChordsAndKeys(r.heap, r.ref)

\* C26 as stated: with the notation and the accidental preference stated,
\* transposing by a and then by b, a, b and a + b not 0, gives the chord
\* texts and key values of transposing once by a + b.
C26_TwoStepsAreOne ==
    TwoSteps => ChordsAndKeys(heap, cur) = OneStep(applied[1] + applied[2])

\* C26 amended: with the notation and the accidental preference stated,
\* transposing by a and then by b, a, b and a + b not 0, gives every chord
\* token and key value whose qualities do not begin with "#" or "b" the
\* text that transposing once by a + b gives it.
C26_TwoStepsAreOnePlainQuality ==
    TwoSteps =>
        /\ Len(ChordsAndKeys(heap, cur)) = Len(ChordsAndKeys(heap, song))
        /\ \A i \in 1..Len(ChordsAndKeys(heap, song)) :
              ChordPlainQuality(ChordsAndKeys(heap, song)[i], topts.notation)
                  => ChordsAndKeys(heap, cur)[i] = OneStep(applied[1] + applied[2])[i]

\* Am/E with the key Eb, up 2 and then up 1 with flat spelling, is Cm/G with
\* the key Gb, as it is up 3.
C26_Witness ==
    /\ applied = <<2, 1>>
    /\ topts = [notation |-> "standard", accidentalPreference |-> "flat"]
    /\ \E i \in 1..Len(ChordsAndKeys(heap, song)) :
          /\ ChordsAndKeys(heap, song)[i] = Chars("Am/E")
          /\ ChordsAndKeys(heap, cur)[i] = Chars("Cm/G")
    /\ \E i \in 1..Len(ChordsAndKeys(heap, song)) :
          /\ ChordsAndKeys(heap, song)[i] = Chars("Eb")
          /\ ChordsAndKeys(heap, cur)[i] = Chars("Gb")

====
